---- MODULE Spec2Model ----
(***************************************************************************)
(* Context propagation engine of log-args-runtime.                         *)
(*                                                                         *)
(* Program state: the two thread_local! stacks (CONTEXT_STACK,             *)
(* ASYNC_CONTEXT_STACK), one pair per execution thread, and the            *)
(* process-wide GLOBAL_CONTEXT map.  Units of work (tokio tasks) run on    *)
(* the worker threads, hold the guards they were handed, and may resume on *)
(* another worker thread at a suspension point.                            *)
(*                                                                         *)
(* History variables (never read by an action's guard or by the engine's   *)
(* operators): syncOwner/asyncOwner (which unit pushed each frame), hist   *)
(* (what each live guard's operation saw and left) and last (the operation *)
(* that produced the state).  hist and last are recorded by Spec, the      *)
(* specification of one unit of work on one thread; SpecTasks, the         *)
(* specification of two tasks on two worker threads, leaves them alone.    *)
(* SpecReads is Spec with the read operations as steps; SpecFaults runs    *)
(* one unit after the other with the two faults the engine provides for:   *)
(* a panic under the lock of GLOBAL_CONTEXT (the Mutex is poisoned) and    *)
(* the destruction of ASYNC_CONTEXT_STACK at thread exit.  Both keep only  *)
(* the name and the context of the last step in last.  SpecShare runs two  *)
(* units on two threads that capture and read the global store             *)
(* concurrently, and records in ghist the value of the most recently       *)
(* completed set_global_context of each key and the snapshot a reader      *)
(* obtained last; the other specifications leave ghist alone.              *)
(*                                                                         *)
(* The #[params] attribute macro of log_args is modelled by what the block *)
(* it generates does at run time: calls holds the annotated functions each *)
(* unit is inside of, features the with_context builds of the two crates.  *)
(* SpecMacro is one unit calling annotated functions and logging in their  *)
(* bodies; SpecSpawn adds the tasks those functions spawn.  The engine's   *)
(* specifications leave calls and features alone.  SpecKeys is Spec with   *)
(* keys of which one is the other followed by "=" and more text.           *)
(*                                                                         *)
(* The Mutex of GLOBAL_CONTEXT: lock is the thread that holds it, op the   *)
(* engine call each unit is in and how far it got.  SpecLock runs two      *)
(* units whose calls interleave at every acquisition and release;          *)
(* SpecLockFair adds fair scheduling.  The other specifications run each   *)
(* call to its next acquisition as one step and leave lock and op alone.   *)
(***************************************************************************)
EXTENDS Integers, Sequences, FiniteSets, TLC

\* ------------------------------------------------------------------ bounds
\* guards one unit of work holds at a time
MaxGuards == 3
\* frames on all stacks of the process together
MaxFrames == 2

\* ------------------------------------------------------------- the domain
Threads == {"t1", "t2"}
Units   == {"A", "B"}
Keys    == {"x", "y"}
Values  == {"1", "2"}
None    == "none"

EmptyCtx == [k \in {} |-> None]

\* the contexts a caller hands to push_context / push_async_context
PushContexts ==
    { [k \in {"x"} |-> "1"], [k \in {"x", "y"} |-> "2"] }

\* no #[params] function has been entered
NoCalls == [u \in {"A", "B"} |-> << >>]

\* no engine call is in progress
IdleOp == [ name |-> "none", pc |-> "idle", k |-> "-", v |-> "-" ]

NoOps == [u \in {"A", "B"} |-> IdleOp]

\* both crates built with the with_context feature
AllFeatures == [ macro |-> TRUE, runtime |-> TRUE ]

VARIABLES
    sync,        \* CONTEXT_STACK, per thread: Seq of contexts, oldest first
    async,       \* ASYNC_CONTEXT_STACK, per thread
    global,      \* GLOBAL_CONTEXT: a context
    status,      \* per unit: "new" | "run" | "panicked"
    thr,         \* per unit: the thread it runs on
    guards,      \* per unit: the guards it holds ("sync" | "async"), innermost last
    cap,         \* per unit: the locals of a capture_context call in progress
    poisoned,    \* the Mutex of GLOBAL_CONTEXT is poisoned
    asyncGone,   \* per thread: ASYNC_CONTEXT_STACK has been destroyed
    syncOwner,   \* history: the unit that pushed each frame of sync
    asyncOwner,  \* history: the unit that pushed each frame of async
    hist,        \* history: per unit, one snapshot per guard it holds
    last,        \* history: the operation that produced this state
    ghist,       \* history: the sets of the global store and the snapshot last read
    calls,       \* per unit: the #[params] functions it is inside of, innermost last
    features,    \* the with_context feature of the macro crate and of the runtime
    lock,        \* the Mutex of GLOBAL_CONTEXT: "free" or the unit that holds it
    op           \* per unit: the engine call it is in and how far the call has got

vars == << sync, async, global, status, thr, guards, cap, poisoned, asyncGone,
           syncOwner, asyncOwner, hist, last, ghist, calls, features, lock, op >>

\* ------------------------------------------------------- pure operations
\* HashMap::extend: the entries of m overwrite those of acc
Extend(acc, m) ==
    [k \in (DOMAIN acc) \cup (DOMAIN m) |-> IF k \in DOMAIN m THEN m[k] ELSE acc[k]]

\* the fold taken from the innermost frame outwards: outer frames overwrite
RECURSIVE FoldFramesRev(_)
FoldFramesRev(s) ==
    IF Len(s) = 0 THEN EmptyCtx
    ELSE Extend(FoldFramesRev(SubSeq(s, 2, Len(s))), s[1])

\* stack.iter().fold(HashMap::new(), |acc, c| { acc.extend(c); acc })
RECURSIVE FoldFrames(_)
FoldFrames(s) ==
    IF Len(s) = 0 THEN EmptyCtx
    ELSE Extend(FoldFrames(SubSeq(s, 1, Len(s) - 1)), s[Len(s)])

\* a scan from the outermost frame inwards
RECURSIVE ScanFwd(_, _)
ScanFwd(s, k) ==
    IF Len(s) = 0 THEN None
    ELSE IF k \in DOMAIN s[1] THEN s[1][k]
    ELSE ScanFwd(SubSeq(s, 2, Len(s)), k)

\* for m in stack.iter().rev() { if let Some(v) = m.get(key) { return Some(v) } } None
RECURSIVE ScanRev(_, _)
ScanRev(s, k) ==
    IF Len(s) = 0 THEN None
    ELSE IF k \in DOMAIN s[Len(s)] THEN s[Len(s)][k]
    ELSE ScanRev(SubSeq(s, 1, Len(s) - 1), k)

\* all but the last element of a sequence
Front(s) == IF Len(s) = 0 THEN s ELSE SubSeq(s, 1, Len(s) - 1)

\* a pop that leaves a default frame where there was none
PopOrDefault(s) == IF Len(s) = 0 THEN << EmptyCtx >> ELSE SubSeq(s, 1, Len(s) - 1)

\* a pop that removes the oldest element
PopFront(s) == IF Len(s) = 0 THEN s ELSE SubSeq(s, 2, Len(s))

\* Vec::pop: removes the last element, does nothing on an empty vector
Pop(s) == IF Len(s) = 0 THEN s ELSE SubSeq(s, 1, Len(s) - 1)

\* a lookup that tries the sync stack before the async stack
LookupSyncFirst(as, ss, g, k) ==
    IF ScanRev(ss, k) # None THEN ScanRev(ss, k)
    ELSE IF ScanRev(as, k) # None THEN ScanRev(as, k)
    ELSE IF k \in DOMAIN g THEN g[k]
    ELSE None

\* get_context_value on given contents of the three layers
LookupIn(as, ss, g, k) ==
    IF ScanRev(as, k) # None THEN ScanRev(as, k)
    ELSE IF ScanRev(ss, k) # None THEN ScanRev(ss, k)
    ELSE IF k \in DOMAIN g THEN g[k]
    ELSE None

\* a lock whose poison is ignored
LockedGlobalThroughPoison == global

\* what `if let Ok(global) = GLOBAL_CONTEXT.lock()` gives access to: the map,
\* and nothing to look at when the lock is poisoned
LockedGlobal == IF poisoned THEN EmptyCtx ELSE global

\* what ASYNC_CONTEXT_STACK.try_with(|stack| stack.borrow().clone()) gives to
\* the loop under `if let Ok(stack)`: no frame when the thread-local is destroyed
TryAsync(t) == IF asyncGone[t] THEN << >> ELSE async[t]

get_context_value(t, k) == LookupIn(TryAsync(t), sync[t], LockedGlobal, k)

get_context(t) == FoldFrames(sync[t])

\* try_with(fold).unwrap_or_default()
get_async_context(t) == IF asyncGone[t] THEN EmptyCtx ELSE FoldFrames(async[t])

\* try_with(clone).unwrap_or_else(|_| vec![HashMap::new()])
get_current_async_stack(t) == IF asyncGone[t] THEN << EmptyCtx >> ELSE async[t]

\* Option<HashMap>: NoMap is None, SomeMap(m) is Some(m)
NoMap == << >>
SomeMap(m) == << m >>

\* a snapshot that is Some(empty map) for an empty store
get_global_context_always_some ==
    IF poisoned THEN NoMap
    ELSE SomeMap(global)

get_global_context ==
    IF poisoned THEN NoMap
    ELSE IF DOMAIN global = {} THEN NoMap
    ELSE SomeMap(global)

\* the orders in which a HashMap can iterate over the keys in S
IterOrders(S) ==
    { p \in [1 .. Cardinality(S) -> S] :
        \A i, j \in 1 .. Cardinality(S) : i # j => p[i] # p[j] }

\* the characters of a key or value: "x=y" is the one string of the model
\* with more than one character that the engine looks into
Text(s) == IF s = "x=y" THEN << "x", "=", "y" >> ELSE << s >>

\* format!("{key}={value}")
Render(k, v) == Text(k) \o << "=" >> \o Text(v)

\* str::starts_with
StartsWith(s, p) == Len(p) <= Len(s) /\ SubSeq(s, 1, Len(p)) = p

\* context_parts.iter().any(|p| p.starts_with(&format!("{key}="))), a part
\* "k=v" being kept as << k, v >> and compared as the text it is
HasPart(parts, key) ==
    \E i \in DOMAIN parts :
        StartsWith(Render(parts[i][1], parts[i][2]), Text(key) \o << "=" >>)

\* the inner loop over one frame m, iterated in order p from position i on
RECURSIVE AddParts(_, _, _, _)
AddParts(parts, m, p, i) ==
    IF i > Len(p) THEN parts
    ELSE AddParts(IF p[i] # "function" /\ ~HasPart(parts, p[i])
                  THEN Append(parts, << p[i], m[p[i]] >>)
                  ELSE parts,
                  m, p, i + 1)

\* for context_map in stack.iter().rev(): every list of parts the loop can
\* leave, started from the lists in P
RECURSIVE PartsOfStack(_, _)
PartsOfStack(s, P) ==
    IF Len(s) = 0 THEN P
    ELSE PartsOfStack(Front(s),
            { AddParts(parts, s[Len(s)], p, 1) :
                parts \in P, p \in IterOrders(DOMAIN s[Len(s)]) })

\* the loop over the global snapshot m in order p: no test for duplicates
RECURSIVE AddGlobalParts(_, _, _, _)
AddGlobalParts(parts, m, p, i) ==
    IF i > Len(p) THEN parts
    ELSE AddGlobalParts(IF p[i] # "function"
                        THEN Append(parts, << p[i], m[p[i]] >>)
                        ELSE parts,
                        m, p, i + 1)

\* the parts taken from the global snapshot g (an Option) when the stacks gave none
GlobalParts(g) ==
    IF g = NoMap THEN { << >> }
    ELSE { AddGlobalParts(<< >>, g[1], p, 1) : p \in IterOrders(DOMAIN g[1]) }

\* get_inherited_context_string on given layers: the lists of parts it can
\* join with "," (the empty list is the empty string)
InheritedStrings(as, ss, g) ==
    UNION { IF parts # << >> THEN { parts } ELSE GlobalParts(g) :
              parts \in PartsOfStack(ss, PartsOfStack(as, { << >> })) }

get_inherited_context_string(t) ==
    InheritedStrings(TryAsync(t), sync[t], get_global_context)

\* the entries of m other than the function name
WithoutFunction(m) == [k \in (DOMAIN m) \ {"function"} |-> m[k]]

\* for stack_context in stack.iter().rev(): the fields of the first frame,
\* from the innermost outwards, that has a field other than the function name
RECURSIVE FirstFields(_)
FirstFields(s) ==
    IF Len(s) = 0 THEN EmptyCtx
    ELSE IF DOMAIN WithoutFunction(s[Len(s)]) # {} THEN WithoutFunction(s[Len(s)])
    ELSE FirstFields(Front(s))

get_inherited_fields_map(t) ==
    IF DOMAIN FirstFields(TryAsync(t)) # {} THEN FirstFields(TryAsync(t))
    ELSE FirstFields(sync[t])

\* the read operations a caller can make: << operation, key >>
ReadCalls ==
    { << "get_context", "-" >>, << "get_async_context", "-" >>,
      << "get_inherited_fields_map", "-" >> }
       \cup { << "get_context_value", k >> : k \in Keys }

\* what read call rc returns on thread t; get_context_value's Option<String>
\* is kept as the one-entry map key -> value (None for a miss)
ReadResult(rc, t) ==
    CASE rc[1] = "get_context" -> get_context(t)
      [] rc[1] = "get_async_context" -> get_async_context(t)
      [] rc[1] = "get_inherited_fields_map" -> get_inherited_fields_map(t)
      [] rc[1] = "get_context_value" -> [k \in {rc[2]} |-> get_context_value(t, k)]
      [] rc[1] = "get_global_context" -> get_global_context

\* the map info!/warn!/error!/debug!/trace! hand to log_with_context
LogContext(t) == get_context(t)

\* a union in which the async merge wins
CaptureUnionAsyncWins(t) == Extend(get_context(t), get_async_context(t))

\* capture_context: current_context = get_async_context(); current_context.extend(get_context())
CaptureUnion(t) == Extend(get_async_context(t), get_context(t))

\* an insert that keeps the value a key already has
set_global_context_keeping(g, k, v) ==
    IF poisoned \/ k \in DOMAIN g THEN g ELSE Extend(g, [x \in {k} |-> v])

\* a store that holds the last published entry only
set_global_context_replacing(g, k, v) ==
    IF poisoned THEN g ELSE [x \in {k} |-> v]

\* set_global_context: global.insert(key, value) under the lock, nothing when
\* the lock is poisoned
set_global_context(g, k, v) ==
    IF poisoned THEN g ELSE Extend(g, [x \in {k} |-> v])

\* ------------------------------------------------------------ bookkeeping
IdleCap == [ pc |-> "idle", ctx |-> EmptyCtx, todo |-> {} ]

\* a capture_context call is in progress in unit u
InCapture(u) == cap[u].pc # "idle"

\* capture_context has no suspension point: while it runs on a thread no other
\* unit runs on that thread
ThreadFree(t, u) ==
    \A v \in Units \ {u} : ~(status[v] = "run" /\ thr[v] = t /\ InCapture(v))

\* unit u is at a point where it can start an engine operation
Ready(u) == status[u] = "run" /\ ~InCapture(u) /\ ThreadFree(thr[u], u)

RECURSIVE SumLen(_, _)
SumLen(f, S) ==
    IF S = {} THEN 0
    ELSE LET t == CHOOSE x \in S : TRUE IN Len(f[t]) + SumLen(f, S \ {t})

\* frames on all stacks of the process
Frames == SumLen(sync, Threads) + SumLen(async, Threads)

\* unit u may take one more guard
CanGuard(u) == Len(guards[u]) < MaxGuards

\* unit u may take one more guard that holds a new frame
CanPush(u) == CanGuard(u) /\ Frames < MaxFrames

TopOwner(o) == IF Len(o) = 0 THEN "none" ELSE o[Len(o)]

\* the guards of kind g among gs
RECURSIVE CountKind(_, _)
CountKind(gs, g) ==
    IF Len(gs) = 0 THEN 0
    ELSE CountKind(Front(gs), g) + (IF gs[Len(gs)] = g THEN 1 ELSE 0)

\* n guard drops on one stack
RECURSIVE PopN(_, _)
PopN(s, n) == IF n = 0 THEN s ELSE PopN(Pop(s), n - 1)

\* a panic in unit u: the unit ends, and the unwinding drops every guard it
\* holds (ContextGuard::drop, AsyncContextGuard::drop), each popping its stack
\* on the unit's thread; a destroyed async stack is not touched again
Unwind(u) ==
    LET t  == thr[u]
        ns == CountKind(guards[u], "sync")
        na == CountKind(guards[u], "async")
    IN
    /\ sync' = [sync EXCEPT ![t] = PopN(@, ns)]
    /\ syncOwner' = [syncOwner EXCEPT ![t] = PopN(@, ns)]
    /\ async' = IF asyncGone[t] THEN async ELSE [async EXCEPT ![t] = PopN(@, na)]
    /\ asyncOwner' = IF asyncGone[t] THEN asyncOwner
                     ELSE [asyncOwner EXCEPT ![t] = PopN(@, na)]
    /\ guards' = [guards EXCEPT ![u] = << >>]
    /\ status' = [status EXCEPT ![u] = "panicked"]
    /\ cap' = [cap EXCEPT ![u] = IdleCap]

\* ---------------------------------------------------------------- actions
\* a new unit of work starts running on worker thread t
Spawn(u, t) ==
    /\ status[u] = "new"
    /\ ThreadFree(t, u)
    /\ status' = [status EXCEPT ![u] = "run"]
    /\ thr' = [thr EXCEPT ![u] = t]
    /\ UNCHANGED << sync, async, global, guards, cap, syncOwner, asyncOwner >>
    /\ UNCHANGED << poisoned, asyncGone >>

\* a suspended task is resumed on another worker thread
Resume(u, t) ==
    /\ Ready(u)
    /\ t # thr[u]
    /\ ThreadFree(t, u)
    /\ thr' = [thr EXCEPT ![u] = t]
    /\ UNCHANGED << sync, async, global, status, guards, cap, syncOwner, asyncOwner >>
    /\ UNCHANGED << poisoned, asyncGone >>

\* a push on one stack shared by all threads
push_context_shared(u, c) ==
    /\ Ready(u)
    /\ CanPush(u)
    /\ sync' = [t \in Threads |-> Append(sync[t], c)]
    /\ syncOwner' = [t \in Threads |-> Append(syncOwner[t], u)]
    /\ guards' = [guards EXCEPT ![u] = Append(@, "sync")]
    /\ UNCHANGED << async, global, status, thr, cap, asyncOwner >>
    /\ UNCHANGED << poisoned, asyncGone >>

push_context(u, c) ==
    LET t == thr[u] IN
    /\ Ready(u)
    /\ CanPush(u)
    /\ sync' = [sync EXCEPT ![t] = Append(@, c)]
    /\ syncOwner' = [syncOwner EXCEPT ![t] = Append(@, u)]
    /\ guards' = [guards EXCEPT ![u] = Append(@, "sync")]
    /\ UNCHANGED << async, global, status, thr, cap, asyncOwner >>
    /\ UNCHANGED << poisoned, asyncGone >>

\* a push that writes the new fields into the top frame when there is one
push_async_context_merging(u, c) ==
    LET t == thr[u] IN
    /\ Ready(u)
    /\ CanPush(u)
    /\ IF asyncGone[t]
       THEN Unwind(u)
       ELSE /\ async' = [async EXCEPT ![t] =
                           IF Len(@) = 0 THEN << c >>
                           ELSE Append([@ EXCEPT ![Len(@)] = Extend(@, c)], c)]
            /\ asyncOwner' = [asyncOwner EXCEPT ![t] = Append(@, u)]
            /\ guards' = [guards EXCEPT ![u] = Append(@, "async")]
            /\ UNCHANGED << sync, status, cap, syncOwner >>
    /\ UNCHANGED << global, thr, poisoned, asyncGone >>

\* ASYNC_CONTEXT_STACK.with panics when the thread-local is destroyed
push_async_context(u, c) ==
    LET t == thr[u] IN
    /\ Ready(u)
    /\ CanPush(u)
    /\ IF asyncGone[t]
       THEN Unwind(u)
       ELSE /\ async' = [async EXCEPT ![t] = Append(@, c)]
            /\ asyncOwner' = [asyncOwner EXCEPT ![t] = Append(@, u)]
            /\ guards' = [guards EXCEPT ![u] = Append(@, "async")]
            /\ UNCHANGED << sync, status, cap, syncOwner >>
    /\ UNCHANGED << global, thr, poisoned, asyncGone >>

\* The tail shared by auto_capture_context and capture_context: the context is
\* pushed on both stacks, the two local guards (_async_guard, _sync_guard) go
\* out of scope at the return, in reverse order of declaration, and a new
\* ContextGuard is handed to the caller.  The first push panics when the
\* async thread-local is destroyed.
PushBothAndReturn(u, c) ==
    LET t  == thr[u]
        a1 == Append(async[t], c)          \* push_async_context(current_context.clone())
        s1 == Append(sync[t], c)           \* push_context(current_context)
        s2 == Pop(s1)                      \* drop(_sync_guard)
        a2 == Pop(a1)                      \* drop(_async_guard)
    IN
    IF asyncGone[t]
    THEN Unwind(u)
    ELSE /\ sync' = [sync EXCEPT ![t] = s2]
         /\ async' = [async EXCEPT ![t] = a2]
         /\ guards' = [guards EXCEPT ![u] = Append(@, "sync")]
         /\ cap' = [cap EXCEPT ![u] = IdleCap]
         /\ UNCHANGED << status, syncOwner, asyncOwner >>

auto_capture_context(u) ==
    /\ Ready(u)
    /\ CanGuard(u)
    /\ PushBothAndReturn(u, get_context(thr[u]))
    /\ UNCHANGED << global, thr, poisoned, asyncGone >>

\* capture_context, up to the loop: the union of the two merges is computed
CaptureBegin(u) ==
    LET c == CaptureUnion(thr[u]) IN
    /\ Ready(u)
    /\ CanGuard(u)
    /\ cap' = [cap EXCEPT ![u] = [ pc |-> "publish", ctx |-> c, todo |-> DOMAIN c ]]
    /\ UNCHANGED << sync, async, global, status, thr, guards, syncOwner, asyncOwner >>
    /\ UNCHANGED << poisoned, asyncGone >>

\* a loop that publishes every key in one critical section
CapturePublishAll(u, k) ==
    /\ status[u] = "run"
    /\ cap[u].pc = "publish"
    /\ k \in cap[u].todo
    /\ global' = IF poisoned THEN global ELSE Extend(global, cap[u].ctx)
    /\ cap' = [cap EXCEPT ![u].todo = {}]
    /\ UNCHANGED << sync, async, status, thr, guards, syncOwner, asyncOwner >>
    /\ UNCHANGED << poisoned, asyncGone >>

\* an iteration that publishes nothing
CapturePublishNothing(u, k) ==
    /\ status[u] = "run"
    /\ cap[u].pc = "publish"
    /\ k \in cap[u].todo
    /\ global' = global
    /\ cap' = [cap EXCEPT ![u].todo = @ \ {k}]
    /\ UNCHANGED << sync, async, status, thr, guards, syncOwner, asyncOwner >>
    /\ UNCHANGED << poisoned, asyncGone >>

\* one iteration of `for (key, value) in &current_context`, in HashMap order
CapturePublish(u, k) ==
    /\ status[u] = "run"
    /\ cap[u].pc = "publish"
    /\ k \in cap[u].todo
    /\ global' = set_global_context(global, k, cap[u].ctx[k])
    /\ cap' = [cap EXCEPT ![u].todo = @ \ {k}]
    /\ UNCHANGED << sync, async, status, thr, guards, syncOwner, asyncOwner >>
    /\ UNCHANGED << poisoned, asyncGone >>

\* capture_context after the loop
CaptureFinish(u) ==
    /\ status[u] = "run"
    /\ cap[u].pc = "publish"
    /\ cap[u].todo = {}
    /\ PushBothAndReturn(u, cap[u].ctx)
    /\ UNCHANGED << global, thr, poisoned, asyncGone >>

\* a drop that also clears the global store
DropGuardClearing(u) ==
    LET t == thr[u]
        g == guards[u][Len(guards[u])]
    IN
    /\ Ready(u)
    /\ Len(guards[u]) > 0
    /\ IF g = "sync"
       THEN /\ guards' = [guards EXCEPT ![u] = Front(@)]
            /\ sync' = [sync EXCEPT ![t] = Pop(@)]
            /\ syncOwner' = [syncOwner EXCEPT ![t] = Pop(@)]
            /\ UNCHANGED << async, asyncOwner, status, cap >>
       ELSE IF asyncGone[t]
       THEN Unwind(u)
       ELSE /\ guards' = [guards EXCEPT ![u] = Front(@)]
            /\ async' = [async EXCEPT ![t] = Pop(@)]
            /\ asyncOwner' = [asyncOwner EXCEPT ![t] = Pop(@)]
            /\ UNCHANGED << sync, syncOwner, status, cap >>
    /\ global' = EmptyCtx
    /\ UNCHANGED << thr, poisoned, asyncGone >>

\* ContextGuard::drop / AsyncContextGuard::drop of the innermost guard of unit
\* u, on the thread the unit runs on now
DropGuard(u) ==
    LET t == thr[u]
        g == guards[u][Len(guards[u])]
    IN
    /\ Ready(u)
    /\ Len(guards[u]) > 0
    /\ IF g = "sync"
       THEN /\ guards' = [guards EXCEPT ![u] = Front(@)]
            /\ sync' = [sync EXCEPT ![t] = Pop(@)]
            /\ syncOwner' = [syncOwner EXCEPT ![t] = Pop(@)]
            /\ UNCHANGED << async, asyncOwner, status, cap >>
       ELSE IF asyncGone[t]
       THEN Unwind(u)
       ELSE /\ guards' = [guards EXCEPT ![u] = Front(@)]
            /\ async' = [async EXCEPT ![t] = Pop(@)]
            /\ asyncOwner' = [asyncOwner EXCEPT ![t] = Pop(@)]
            /\ UNCHANGED << sync, syncOwner, status, cap >>
    /\ UNCHANGED << global, thr, poisoned, asyncGone >>

\* a read that takes the frames out of the sync stack
ReadTaking(u, rc) ==
    /\ Ready(u)
    /\ sync' = [sync EXCEPT ![thr[u]] = << >>]
    /\ syncOwner' = [syncOwner EXCEPT ![thr[u]] = << >>]
    /\ UNCHANGED << async, global, status, thr, guards, cap, poisoned, asyncGone,
                    asyncOwner >>

\* get_context, get_async_context, get_context_value or
\* get_inherited_fields_map called by unit u: the stacks are borrowed
\* immutably and cloned, the global map is read under the lock
Read(u, rc) ==
    /\ Ready(u)
    /\ UNCHANGED << sync, async, global, status, thr, guards, cap, poisoned, asyncGone,
                    syncOwner, asyncOwner >>

\* ----------------------------------------------------------------- faults
\* set_global_context panics inside its critical section (the guard of
\* GLOBAL_CONTEXT.lock() is alive from the `if let` to the end of its block):
\* the Mutex is poisoned, nothing is inserted, the calling unit unwinds
PublishFails(u) ==
    /\ status[u] = "run"
    /\ cap[u].pc = "publish"
    /\ cap[u].todo # {}
    /\ ~poisoned
    /\ poisoned' = TRUE
    /\ Unwind(u)
    /\ UNCHANGED << global, thr, asyncGone >>

\* thread t is exiting: its units hold no guard any more, the thread-local
\* ASYNC_CONTEXT_STACK is destroyed (its frames with it) while code of the
\* thread's units (destructors of other thread-locals) can still run
ThreadExit(t) ==
    /\ ~asyncGone[t]
    /\ \A u \in Units :
          (status[u] = "run" /\ thr[u] = t) => (guards[u] = << >> /\ ~InCapture(u))
    /\ asyncGone' = [asyncGone EXCEPT ![t] = TRUE]
    /\ async' = [async EXCEPT ![t] = << >>]
    /\ asyncOwner' = [asyncOwner EXCEPT ![t] = << >>]
    /\ UNCHANGED << sync, global, status, thr, guards, cap, poisoned, syncOwner >>

\* -------------------------------------------------------------- history
NoSnap ==
    [ op |-> "none", ctx |-> EmptyCtx, t |-> "t1",
      preSync |-> << >>, preAsync |-> << >>, preGlobal |-> EmptyCtx,
      postSync |-> << >>, postAsync |-> << >> ]

\* sets: per key the value of the most recently completed set_global_context;
\* seen: the snapshot a reader obtained last
NoGhist == [ sets |-> [k \in Keys |-> None], seen |-> NoMap ]

\* rd, res, again: the read call of the step, its result, and whether the
\* step before was the same call
NoLast ==
    [ op |-> "init", ctx |-> EmptyCtx, snap |-> NoSnap, lifo |-> FALSE,
      rd |-> << "none", "-" >>, res |-> EmptyCtx, again |-> FALSE ]

\* what the guard-producing operation `name` of unit u saw and left
Snap(u, name, c) ==
    LET t == thr[u] IN
    [ op |-> name, ctx |-> c, t |-> t,
      preSync |-> sync[t], preAsync |-> async[t], preGlobal |-> global,
      postSync |-> sync'[t], postAsync |-> async'[t] ]

Did(name, c) == [ NoLast EXCEPT !.op = name, !.ctx = c ]

\* unit u was handed a guard by operation `name`
RecGuard(u, name, c) ==
    /\ hist' = [hist EXCEPT ![u] = Append(@, Snap(u, name, c))]
    /\ last' = Did(name, c)
    /\ ghist' = ghist
    /\ UNCHANGED << calls, features, lock, op >>

\* capture_context was called: its snapshot is taken at the call
RecBegin(u) ==
    /\ hist' = [hist EXCEPT ![u] = Append(@, Snap(u, "capture_context", cap'[u].ctx))]
    /\ last' = Did("capture_begin", cap'[u].ctx)
    /\ ghist' = ghist
    /\ UNCHANGED << calls, features, lock, op >>

RecPublish(u) ==
    /\ hist' = hist
    /\ last' = Did("capture_publish", cap[u].ctx)
    /\ ghist' = ghist
    /\ UNCHANGED << calls, features, lock, op >>

\* capture_context returned: the snapshot is completed with what it left
RecFinish(u) ==
    /\ hist' = [hist EXCEPT ![u][Len(hist[u])] =
                  [@ EXCEPT !.postSync = sync'[thr[u]], !.postAsync = async'[thr[u]]]]
    /\ last' = Did("capture_context", cap[u].ctx)
    /\ ghist' = ghist
    /\ UNCHANGED << calls, features, lock, op >>

\* unit u dropped its innermost guard; lifo: on the thread of the guard's
\* operation, with both stacks as that operation left them
RecDrop(u) ==
    LET h == hist[u][Len(hist[u])]
        t == thr[u]
    IN
    /\ hist' = [hist EXCEPT ![u] = Front(@)]
    /\ last' = [ NoLast EXCEPT
                   !.op = "drop", !.ctx = h.ctx, !.snap = h,
                   !.lifo = (h.t = t /\ sync[t] = h.postSync /\ async[t] = h.postAsync) ]
    /\ ghist' = ghist
    /\ UNCHANGED << calls, features, lock, op >>

\* the step was operation `name`, which worked on context c
Note(name, c) ==
    /\ hist' = hist /\ last' = Did(name, c) /\ ghist' = ghist
    /\ UNCHANGED << calls, features, lock, op >>

\* unit u made read call rc, which returned what it computed on the state
\* it was called in
RecRead(u, rc) ==
    /\ hist' = hist
    /\ last' = [ NoLast EXCEPT
                   !.op = "read", !.rd = rc, !.res = ReadResult(rc, thr[u]),
                   !.again = (last.op = "read" /\ last.rd = rc) ]
    /\ ghist' = ghist
    /\ UNCHANGED << calls, features, lock, op >>

\* unit u completed set_global_context(k, v)
RecSet(u, k) ==
    /\ hist' = hist
    /\ last' = Did("capture_publish", [x \in {k} |-> cap[u].ctx[k]])
    /\ ghist' = [ghist EXCEPT !.sets[k] = cap[u].ctx[k]]
    /\ UNCHANGED << calls, features, lock, op >>

\* unit u obtained a snapshot from get_global_context
RecSnapshot(u) ==
    /\ hist' = hist
    /\ last' = [ NoLast EXCEPT
                   !.op = "read", !.rd = << "get_global_context", "-" >>,
                   !.res = get_global_context ]
    /\ ghist' = [ghist EXCEPT !.seen = get_global_context]
    /\ UNCHANGED << calls, features, lock, op >>

\* ------------------------------------------- one unit of work, one thread
Main == "A"

Init ==
    /\ sync = [t \in Threads |-> << >>]
    /\ async = [t \in Threads |-> << >>]
    /\ global = EmptyCtx
    /\ status = [u \in Units |-> IF u = Main THEN "run" ELSE "new"]
    /\ thr = [u \in Units |-> "t1"]
    /\ guards = [u \in Units |-> << >>]
    /\ cap = [u \in Units |-> IdleCap]
    /\ poisoned = FALSE
    /\ asyncGone = [t \in Threads |-> FALSE]
    /\ syncOwner = [t \in Threads |-> << >>]
    /\ asyncOwner = [t \in Threads |-> << >>]
    /\ hist = [u \in Units |-> << >>]
    /\ last = NoLast
    /\ ghist = NoGhist
    /\ calls = NoCalls
    /\ features = AllFeatures
    /\ lock = "free"
    /\ op = NoOps

Next ==
    \/ \E c \in PushContexts : push_context(Main, c) /\ RecGuard(Main, "push_context", c)
    \/ \E c \in PushContexts :
          push_async_context(Main, c) /\ RecGuard(Main, "push_async_context", c)
    \/ /\ auto_capture_context(Main)
       /\ RecGuard(Main, "auto_capture_context", get_context(thr[Main]))
    \/ CaptureBegin(Main) /\ RecBegin(Main)
    \/ \E k \in Keys : CapturePublish(Main, k) /\ RecPublish(Main)
    \/ CaptureFinish(Main) /\ RecFinish(Main)
    \/ DropGuard(Main) /\ RecDrop(Main)

Spec == Init /\ [][Next]_vars

\* ------------------------------------------------- two tasks, two workers
\* capture_context acts on the stacks exactly as auto_capture_context does
\* (PushBothAndReturn); its publication steps are left to Spec.
InitTasks ==
    /\ sync = [t \in Threads |-> << >>]
    /\ async = [t \in Threads |-> << >>]
    /\ global = EmptyCtx
    /\ status = [u \in Units |-> "new"]
    /\ thr = [u \in Units |-> "t1"]
    /\ guards = [u \in Units |-> << >>]
    /\ cap = [u \in Units |-> IdleCap]
    /\ poisoned = FALSE
    /\ asyncGone = [t \in Threads |-> FALSE]
    /\ syncOwner = [t \in Threads |-> << >>]
    /\ asyncOwner = [t \in Threads |-> << >>]
    /\ hist = [u \in Units |-> << >>]
    /\ last = NoLast
    /\ ghist = NoGhist
    /\ calls = NoCalls
    /\ features = AllFeatures
    /\ lock = "free"
    /\ op = NoOps

NextTasks ==
    \/ \E u \in Units, t \in Threads : Spawn(u, t) /\ UNCHANGED << hist, last, ghist, calls, features, lock, op >>
    \/ \E u \in Units, t \in Threads : Resume(u, t) /\ UNCHANGED << hist, last, ghist, calls, features, lock, op >>
    \/ \E u \in Units, c \in PushContexts : push_context(u, c) /\ UNCHANGED << hist, last, ghist, calls, features, lock, op >>
    \/ \E u \in Units, c \in PushContexts : push_async_context(u, c) /\ UNCHANGED << hist, last, ghist, calls, features, lock, op >>
    \/ \E u \in Units : auto_capture_context(u) /\ UNCHANGED << hist, last, ghist, calls, features, lock, op >>
    \/ \E u \in Units : DropGuard(u) /\ UNCHANGED << hist, last, ghist, calls, features, lock, op >>

SpecTasks == InitTasks /\ [][NextTasks]_vars

\* ------------------------------------ one unit of work, with its reads
NextReads ==
    \/ \E c \in PushContexts : push_context(Main, c) /\ Note("push_context", c)
    \/ \E c \in PushContexts : push_async_context(Main, c) /\ Note("push_async_context", c)
    \/ CaptureBegin(Main) /\ Note("capture_begin", cap'[Main].ctx)
    \/ \E k \in Keys : CapturePublish(Main, k) /\ Note("capture_publish", cap[Main].ctx)
    \/ CaptureFinish(Main) /\ Note("capture_context", cap[Main].ctx)
    \/ DropGuard(Main) /\ Note("drop", EmptyCtx)
    \/ \E rc \in ReadCalls : Read(Main, rc) /\ RecRead(Main, rc)

SpecReads == Init /\ [][NextReads]_vars

\* ------------------------------------ one unit after the other, with faults
\* a unit starts when no other unit runs (the one before it returned to its
\* caller with guards alive, or panicked)
Alone(u) == \A v \in Units \ {u} : status[v] # "run"

NextFaults ==
    \/ \E u \in Units, t \in Threads : Alone(u) /\ Spawn(u, t) /\ Note("spawn", EmptyCtx)
    \/ \E u \in Units, c \in PushContexts : push_context(u, c) /\ Note("push_context", c)
    \/ \E u \in Units, c \in PushContexts :
          push_async_context(u, c) /\ Note("push_async_context", c)
    \/ \E u \in Units :
          auto_capture_context(u) /\ Note("auto_capture_context", get_context(thr[u]))
    \/ \E u \in Units : CaptureBegin(u) /\ Note("capture_begin", cap'[u].ctx)
    \/ \E u \in Units, k \in Keys :
          CapturePublish(u, k) /\ Note("capture_publish", [x \in {k} |-> cap[u].ctx[k]])
    \/ \E u \in Units : CaptureFinish(u) /\ Note("capture_context", cap[u].ctx)
    \/ \E u \in Units : DropGuard(u) /\ Note("drop", EmptyCtx)
    \/ \E u \in Units : PublishFails(u) /\ Note("publish_fails", cap[u].ctx)
    \/ \E t \in Threads : ThreadExit(t) /\ Note("thread_exit", EmptyCtx)

SpecFaults == InitTasks /\ [][NextFaults]_vars

\* ------------------------------- two units on two threads, one global store
\* the contexts the two units push: both define every key, with different values
ShareContexts == { [k \in Keys |-> v] : v \in Values }

InitShare ==
    /\ sync = [t \in Threads |-> << >>]
    /\ async = [t \in Threads |-> << >>]
    /\ global = EmptyCtx
    /\ status = [u \in Units |-> "run"]
    /\ thr = [u \in Units |-> IF u = Main THEN "t1" ELSE "t2"]
    /\ guards = [u \in Units |-> << >>]
    /\ cap = [u \in Units |-> IdleCap]
    /\ poisoned = FALSE
    /\ asyncGone = [t \in Threads |-> FALSE]
    /\ syncOwner = [t \in Threads |-> << >>]
    /\ asyncOwner = [t \in Threads |-> << >>]
    /\ hist = [u \in Units |-> << >>]
    /\ last = NoLast
    /\ ghist = NoGhist
    /\ calls = NoCalls
    /\ features = AllFeatures
    /\ lock = "free"
    /\ op = NoOps

NextShare ==
    \/ \E u \in Units, c \in ShareContexts : push_context(u, c) /\ Note("push_context", c)
    \/ \E u \in Units : CaptureBegin(u) /\ Note("capture_begin", cap'[u].ctx)
    \/ \E u \in Units, k \in Keys : CapturePublish(u, k) /\ RecSet(u, k)
    \/ \E u \in Units : CaptureFinish(u) /\ Note("capture_context", cap[u].ctx)
    \/ \E u \in Units : DropGuard(u) /\ Note("drop", EmptyCtx)
    \/ \E u \in Units : Read(u, << "get_global_context", "-" >>) /\ RecSnapshot(u)

SpecShare == InitShare /\ [][NextShare]_vars

\* ---------------------------------------- the lock of the global store
\* the engine operations that may take the lock of GLOBAL_CONTEXT
LockingOps ==
    { "set_global_context", "get_global_context", "get_context_value",
      "capture_context", "get_inherited_context_string" }

\* the context the units push between their calls; set_global_context is
\* called with the other value
LockContexts == { [k \in Keys |-> "2"] }

\* the keys an operation can be called with ("-": it takes no key)
KeysOfOp(name) ==
    IF name \in {"set_global_context", "get_context_value"} THEN Keys ELSE {"-"}

\* the stacks of thread t answer the call without the global store:
\* get_context_value finds the key in a frame, get_inherited_context_string
\* has parts from the frames
AnsweredByStacks(name, t, k) ==
    \/ name = "get_context_value" /\ LookupIn(TryAsync(t), sync[t], EmptyCtx, k) # None
    \/ /\ name = "get_inherited_context_string"
       /\ PartsOfStack(sync[t], PartsOfStack(TryAsync(t), { << >> })) # { << >> }

\* Unit u calls an engine operation; the step runs the call up to its first
\* GLOBAL_CONTEXT.lock().  A call the stacks answer returns in this step; a
\* capture_context of an empty union goes on to its pushes.
BeginOp(u, name, k, v) ==
    /\ Ready(u)
    /\ op[u].pc = "idle"
    /\ IF name = "capture_context"
       THEN /\ CaptureBegin(u)
            /\ op' = [op EXCEPT ![u] =
                        [ name |-> name, k |-> "-", v |-> "-",
                          pc |-> IF cap'[u].todo = {} THEN "tail" ELSE "lock" ]]
       ELSE /\ op' = [op EXCEPT ![u] =
                        IF AnsweredByStacks(name, thr[u], k) THEN IdleOp
                        ELSE [ name |-> name, pc |-> "lock", k |-> k, v |-> v ]]
            /\ UNCHANGED << sync, async, global, status, thr, guards, cap, poisoned,
                            asyncGone, syncOwner, asyncOwner >>
    /\ lock' = lock

\* GLOBAL_CONTEXT.lock() returns: the Mutex was free
Acquire(u) ==
    /\ op[u].pc = "lock"
    /\ lock = "free"
    /\ lock' = u
    /\ op' = [op EXCEPT ![u].pc = "locked"]
    /\ UNCHANGED << sync, async, global, status, thr, guards, cap, poisoned,
                    asyncGone, syncOwner, asyncOwner >>

\* a critical section whose end does not release the Mutex
CriticalKeepingLock(u) ==
    /\ op[u].pc = "locked"
    /\ lock' = lock
    /\ IF op[u].name = "capture_context"
       THEN /\ \E k \in cap[u].todo : CapturePublish(u, k)
            /\ op' = [op EXCEPT ![u].pc = IF cap'[u].todo = {} THEN "tail" ELSE "lock"]
       ELSE /\ global' = IF op[u].name = "set_global_context"
                         THEN set_global_context(global, op[u].k, op[u].v)
                         ELSE global
            /\ op' = [op EXCEPT ![u] = IdleOp]
            /\ UNCHANGED << sync, async, status, thr, guards, cap, poisoned,
                            asyncGone, syncOwner, asyncOwner >>

\* The body of `if let Ok(..) = GLOBAL_CONTEXT.lock() { .. }` and its end,
\* where the MutexGuard is dropped: one insert or one read.  The call then
\* returns, or, in capture_context, the loop goes to its next key or ends.
Critical(u) ==
    /\ op[u].pc = "locked"
    /\ lock' = "free"
    /\ IF op[u].name = "capture_context"
       THEN /\ \E k \in cap[u].todo : CapturePublish(u, k)
            /\ op' = [op EXCEPT ![u].pc = IF cap'[u].todo = {} THEN "tail" ELSE "lock"]
       ELSE /\ global' = IF op[u].name = "set_global_context"
                         THEN set_global_context(global, op[u].k, op[u].v)
                         ELSE global
            /\ op' = [op EXCEPT ![u] = IdleOp]
            /\ UNCHANGED << sync, async, status, thr, guards, cap, poisoned,
                            asyncGone, syncOwner, asyncOwner >>

\* capture_context after its loop: the pushes, and the return
CaptureTail(u) ==
    /\ op[u].pc = "tail"
    /\ CaptureFinish(u)
    /\ op' = [op EXCEPT ![u] = IdleOp]
    /\ lock' = lock

\* between its engine calls unit u pushes a frame or drops a guard
IdlePush(u, c) == op[u].pc = "idle" /\ push_context(u, c) /\ UNCHANGED << lock, op >>

IdleDrop(u) == op[u].pc = "idle" /\ DropGuard(u) /\ UNCHANGED << lock, op >>

NextLock ==
    \/ \E u \in Units, name \in LockingOps : \E k \in KeysOfOp(name) :
          BeginOp(u, name, k, "1") /\ UNCHANGED << hist, last, ghist, calls, features >>
    \/ \E u \in Units : Acquire(u) /\ UNCHANGED << hist, last, ghist, calls, features >>
    \/ \E u \in Units : Critical(u) /\ UNCHANGED << hist, last, ghist, calls, features >>
    \/ \E u \in Units : CaptureTail(u) /\ UNCHANGED << hist, last, ghist, calls, features >>
    \/ \E u \in Units, c \in LockContexts :
          IdlePush(u, c) /\ UNCHANGED << hist, last, ghist, calls, features >>
    \/ \E u \in Units : IdleDrop(u) /\ UNCHANGED << hist, last, ghist, calls, features >>

SpecLock == InitShare /\ [][NextLock]_vars

\* fair scheduling: a thread in a critical section or after its loop goes on,
\* and a thread waiting for the Mutex gets it if it is free again and again
FairLock ==
    \A u \in Units :
        /\ WF_vars(Critical(u) /\ UNCHANGED << hist, last, ghist, calls, features >>)
        /\ WF_vars(CaptureTail(u) /\ UNCHANGED << hist, last, ghist, calls, features >>)
        /\ SF_vars(Acquire(u) /\ UNCHANGED << hist, last, ghist, calls, features >>)

SpecLockFair == SpecLock /\ FairLock

\* ------------------------------------------- the #[params] attribute macro
\* functions the two units are inside of at a time
MaxDepth == 2

\* The annotated functions of the program: what AttrConfig::from_attributes
\* leaves of the attribute list (span and span_fields from `span` /
\* `span(..)`, fields from `fields(..)`, auto_capture) and whether the
\* function is an async fn.  The parameters are integers named after the
\* keys; `{:?}` renders an integer as its decimal digits.
Fns ==
    { f \in [ span : BOOLEAN, span_fields : {{}, Keys}, fields : {{}, Keys},
              auto_capture : BOOLEAN, is_async : BOOLEAN ] :
        /\ f.span_fields # {} => (f.span /\ f.fields = {} /\ ~f.auto_capture)
        /\ f.auto_capture => f.span }

\* the arguments of a call of f that its attributes name
ArgsOf(f) == { [k \in f.fields \cup f.span_fields |-> v] : v \in Values }

\* the builds of the two crates
Features == [ macro : BOOLEAN, runtime : BOOLEAN ]

\* the map handed to the push: the fields(..) entries, never the span(..) keys
get_context_map_for_span(f, a) == [k \in f.fields |-> a[k]]

\* a map that also stores the span(..) keys
get_context_map_with_span_keys(f, a) == [k \in f.fields \cup f.span_fields |-> a[k]]

\* the innermost call of unit u
Top(u) == calls[u][Len(calls[u])]

\* unit u is at a suspension point: in the body of an async fn, or outside
\* every annotated function (the async block of its task)
Suspended(u) ==
    IF Len(calls[u]) = 0 THEN TRUE
    ELSE Top(u).fn.is_async /\ Top(u).pc = "body"

\* unit u can take a step: no other unit is in the middle of synchronous
\* code on its thread
CanRun(u) ==
    /\ Ready(u)
    /\ \A v \in Units \ {u} : (status[v] = "run" /\ thr[v] = thr[u]) => Suspended(v)

\* unit u is in the body of an annotated function
InBody(u) == CanRun(u) /\ Len(calls[u]) > 0 /\ Top(u).pc = "body"

\* the annotated functions the process is inside of
Depth == Len(calls["A"]) + Len(calls["B"])

\* the step was `name` of the macro layer
RecMacro(name, c, r) ==
    /\ hist' = hist
    /\ ghist' = ghist
    /\ last' = [ NoLast EXCEPT !.op = name, !.ctx = c, !.res = r ]
    /\ UNCHANGED << lock, op >>

\* function f was called by unit u: the stacks it was called on are kept
RecCall(u, c, f) ==
    /\ hist' = [hist EXCEPT ![u] = IF status'[u] = "run"
                                     THEN Append(@, Snap(u, "call", c))
                                     ELSE << >>]
    /\ ghist' = ghist
    /\ last' = [ NoLast EXCEPT !.op = "call", !.ctx = c, !.res = f ]
    /\ UNCHANGED << lock, op >>

\* function f returned to unit u: snap is what its call saw
RecReturn(u, f) ==
    /\ hist' = [hist EXCEPT ![u] = IF status'[u] = "run" THEN Front(@) ELSE << >>]
    /\ ghist' = ghist
    /\ last' = [ NoLast EXCEPT !.op = "return", !.res = f,
                   !.snap = hist[u][Len(hist[u])] ]
    /\ UNCHANGED << lock, op >>

\* The prologue generate_new_block puts before the body: with span, the push
\* of the context map on the stack of the function's kind; the
\* capture_context call follows when auto_capture is set.  Without span
\* nothing is pushed.  An async fn is called from async code only.
Call(u, f, a) ==
    LET c  == get_context_map_for_span(f, a)
        pc == IF f.span /\ f.auto_capture THEN "capture" ELSE "body"
        e  == [ fn |-> f, args |-> a, pc |-> pc ]
    IN
    /\ CanRun(u)
    /\ IF Len(calls[u]) = 0 THEN TRUE ELSE Top(u).pc = "body"
    /\ f.is_async => Suspended(u)
    /\ Depth < MaxDepth
    /\ f.auto_capture => Len(guards[u]) + 1 < MaxGuards
    /\ IF f.span
       THEN IF f.is_async THEN push_async_context(u, c) ELSE push_context(u, c)
       ELSE UNCHANGED << sync, async, global, status, thr, guards, cap, poisoned,
                         asyncGone, syncOwner, asyncOwner >>
    /\ calls' = [calls EXCEPT ![u] = IF status'[u] = "run" THEN Append(@, e) ELSE << >>]
    /\ features' = features

\* `let _auto_capture_guard = capture_context();` up to the loop
CallCapture(u) ==
    /\ Len(calls[u]) > 0
    /\ Top(u).pc = "capture"
    /\ CaptureBegin(u)
    /\ calls' = [calls EXCEPT ![u][Len(calls[u])].pc = "capturing"]
    /\ features' = features
    /\ RecMacro("capture_begin", cap'[u].ctx, EmptyCtx)

\* one iteration of the loop of that capture_context call
CallPublish(u, k) ==
    /\ CapturePublish(u, k)
    /\ UNCHANGED << calls, features, lock, op >>
    /\ RecMacro("capture_publish", cap[u].ctx, EmptyCtx)

\* that capture_context call returns its guard: the body starts
CallCaptured(u) ==
    /\ Len(calls[u]) > 0
    /\ Top(u).pc = "capturing"
    /\ CaptureFinish(u)
    /\ calls' = [calls EXCEPT ![u] = IF status'[u] = "run"
                                       THEN [@ EXCEPT ![Len(@)].pc = "body"]
                                       ELSE << >>]
    /\ features' = features
    /\ RecMacro("capture_context", cap[u].ctx, EmptyCtx)

\* The end of the block: the locals go out of scope in reverse order of
\* declaration, _auto_capture_guard (a ContextGuard) before _context_guard.
Return(u) ==
    LET f  == Top(u).fn
        t  == thr[u]
        ns == (IF f.span /\ ~f.is_async THEN 1 ELSE 0)
              + (IF f.span /\ f.auto_capture THEN 1 ELSE 0)
        na == IF f.span /\ f.is_async THEN 1 ELSE 0
    IN
    /\ InBody(u)
    /\ IF na > 0 /\ asyncGone[t]
       THEN Unwind(u) /\ calls' = [calls EXCEPT ![u] = << >>]
       ELSE /\ sync' = [sync EXCEPT ![t] = PopN(@, ns)]
            /\ syncOwner' = [syncOwner EXCEPT ![t] = PopN(@, ns)]
            /\ async' = [async EXCEPT ![t] = PopN(@, na)]
            /\ asyncOwner' = [asyncOwner EXCEPT ![t] = PopN(@, na)]
            /\ guards' = [guards EXCEPT ![u] = PopN(@, ns + na)]
            /\ calls' = [calls EXCEPT ![u] = Front(@)]
            /\ UNCHANGED << status, cap >>
    /\ UNCHANGED << global, thr, poisoned, asyncGone, features >>

\* The fields get_context_fields_quote puts in front of every log call of
\* the function, evaluated at the call: a fields(..) entry is the parameter
\* itself, a span(..) entry is looked up in the context with "" as default.
LocalFields(f, a, t) ==
    [k \in f.fields \cup f.span_fields |->
        IF k \in f.fields THEN a[k]
        ELSE IF get_context_value(t, k) = None THEN "" ELSE get_context_value(t, k)]

\* the function gets `context = get_inherited_context_string()`: span is the
\* only attribute besides span(..) keys, and the macro crate has with_context
HasInheritedField(f) == f.span /\ f.fields = {} /\ features.macro

\* The events one log call of function f may emit on thread t: the local
\* fields, the inherited string (one of its renderings), and the
\* `context = ?ctx` field log_with_context! adds from get_context() when the
\* runtime has with_context.
Events(f, a, t) ==
    { [ fields |-> LocalFields(f, a, t),
        inherited |-> s,
        context |-> IF features.runtime THEN SomeMap(LogContext(t)) ELSE NoMap ] :
      s \in IF HasInheritedField(f)
            THEN { << r >> : r \in get_inherited_context_string(t) }
            ELSE { << >> } }

\* a redefined info!/warn!/error!/debug!/trace! in the body of the function
LogEvent(u) ==
    /\ InBody(u)
    /\ \E e \in Events(Top(u).fn, Top(u).args, thr[u]) :
          RecMacro("log", Top(u).args, [ u |-> u, event |-> e ])
    /\ UNCHANGED << sync, async, global, status, thr, guards, cap, poisoned,
                    asyncGone, syncOwner, asyncOwner, calls, features >>

\* tokio::spawn in the body of the function: SpawnInstrumentRewriter wraps
\* the future in the current tracing span, the task starts on a worker
SpawnTask(u, v, t) ==
    /\ InBody(u)
    /\ Spawn(v, t)
    /\ UNCHANGED << calls, features, lock, op >>
    /\ RecMacro("spawn", EmptyCtx, [ parent |-> u, child |-> v ])

InitMacro ==
    /\ sync = [t \in Threads |-> << >>]
    /\ async = [t \in Threads |-> << >>]
    /\ global = EmptyCtx
    /\ status = [u \in Units |-> IF u = Main THEN "run" ELSE "new"]
    /\ thr = [u \in Units |-> "t1"]
    /\ guards = [u \in Units |-> << >>]
    /\ cap = [u \in Units |-> IdleCap]
    /\ poisoned = FALSE
    /\ asyncGone = [t \in Threads |-> FALSE]
    /\ syncOwner = [t \in Threads |-> << >>]
    /\ asyncOwner = [t \in Threads |-> << >>]
    /\ hist = [u \in Units |-> << >>]
    /\ last = NoLast
    /\ ghist = NoGhist
    /\ calls = NoCalls
    /\ features \in Features
    /\ lock = "free"
    /\ op = NoOps

\* one unit of work calls annotated functions and logs in their bodies
NextMacro ==
    \/ \E f \in Fns : \E a \in ArgsOf(f) :
          Call(Main, f, a) /\ RecCall(Main, get_context_map_for_span(f, a), f)
    \/ CallCapture(Main)
    \/ \E k \in Keys : CallPublish(Main, k)
    \/ CallCaptured(Main)
    \/ LogEvent(Main)
    \/ Return(Main) /\ RecReturn(Main, Top(Main).fn)

SpecMacro == InitMacro /\ [][NextMacro]_vars

\* ------------------------------------------ keys that contain the separator
\* contexts handed to the pushes by a caller whose keys may contain '='
EqContexts ==
    { [k \in K |-> v] : K \in { {"x"}, {"x=y"}, {"x", "x=y"} }, v \in Values }

NextKeys ==
    \/ \E c \in EqContexts : push_context(Main, c) /\ Note("push_context", c)
    \/ \E c \in EqContexts : push_async_context(Main, c) /\ Note("push_async_context", c)
    \/ DropGuard(Main) /\ Note("drop", EmptyCtx)

SpecKeys == Init /\ [][NextKeys]_vars

\* both crates have with_context; the functions spawn tasks, which call
\* annotated functions on the worker that runs them
InitSpawn == InitMacro /\ features = AllFeatures

NextSpawn ==
    \/ \E u \in Units, f \in Fns : \E a \in ArgsOf(f) :
          Call(u, f, a) /\ RecMacro("call", get_context_map_for_span(f, a), f)
    \/ \E u \in Units : CallCapture(u)
    \/ \E u \in Units, k \in Keys : CallPublish(u, k)
    \/ \E u \in Units : CallCaptured(u)
    \/ \E u \in Units : Return(u) /\ RecMacro("return", EmptyCtx, Top(u).fn)
    \/ \E u, v \in Units, t \in Threads : SpawnTask(u, v, t)

SpecSpawn == InitSpawn /\ [][NextSpawn]_vars

\* ============================================================== claims
c1 == [k \in {"x"} |-> "1"]
c2 == [k \in {"x", "y"} |-> "2"]

\* the frames of stack s that define key k
Defining(s, k) == { i \in DOMAIN s : k \in DOMAIN s[i] }

Max(S) == CHOOSE i \in S : \A j \in S : j <= i

\* the value of k in the innermost frame of s that defines it
Innermost(s, k) == s[Max(Defining(s, k))][k]

\* the keys defined by some frame of s
KeysOf(s) == { k \in Keys : Defining(s, k) # {} }

\* what the three layers resolve k to: async frames, then sync frames, then global
Resolved(as, ss, g, k) ==
    IF Defining(as, k) # {} THEN Innermost(as, k)
    ELSE IF Defining(ss, k) # {} THEN Innermost(ss, k)
    ELSE IF k \in DOMAIN g THEN g[k]
    ELSE None

\* the merge of all three layers on thread t
EffectiveContext(t) ==
    [ k \in { x \in Keys : Resolved(async[t], sync[t], global, x) # None } |->
        Resolved(async[t], sync[t], global, k) ]

\* C1: dropping a guard under LIFO discipline on its thread leaves the sync
\* stack and the async stack as they were immediately before the operation
\* that returned the guard was called.
C1_DropRestoresStacks ==
    (last.op = "drop" /\ last.lifo) =>
        /\ sync[last.snap.t] = last.snap.preSync
        /\ async[last.snap.t] = last.snap.preAsync

\* C2 as stated: right after push_context / push_async_context of C every key
\* of C resolves to C's value whatever the layers held, and after the guard's
\* drop (LIFO, global store as at the push) every key of C resolves as it did
\* before the push.
C2_PushPopInverse ==
    /\ last.op \in {"push_context", "push_async_context"} =>
          \A k \in DOMAIN last.ctx : get_context_value(thr[Main], k) = last.ctx[k]
    /\ ( /\ last.op = "drop"
         /\ last.snap.op \in {"push_context", "push_async_context"}
         /\ last.lifo
         /\ global = last.snap.preGlobal ) =>
          \A k \in DOMAIN last.ctx :
             get_context_value(last.snap.t, k) =
                Resolved(last.snap.preAsync, last.snap.preSync, last.snap.preGlobal, k)

\* C2 amended: as C2, but after push_context a key of C resolves to C's value
\* only if no frame of the async stack defines it; otherwise it resolves to
\* the innermost async frame's value.
C2_PushPopInverseAmended ==
    /\ last.op = "push_async_context" =>
          \A k \in DOMAIN last.ctx : get_context_value(thr[Main], k) = last.ctx[k]
    /\ last.op = "push_context" =>
          \A k \in DOMAIN last.ctx :
             get_context_value(thr[Main], k) =
                IF Defining(async[thr[Main]], k) = {} THEN last.ctx[k]
                ELSE Innermost(async[thr[Main]], k)
    /\ ( /\ last.op = "drop"
         /\ last.snap.op \in {"push_context", "push_async_context"}
         /\ last.lifo
         /\ global = last.snap.preGlobal ) =>
          \A k \in DOMAIN last.ctx :
             get_context_value(last.snap.t, k) =
                Resolved(last.snap.preAsync, last.snap.preSync, last.snap.preGlobal, k)

\* a push_context guard was dropped over an async frame that defines the
\* key of the dropped frame
C2_Witness ==
    /\ last.op = "drop" /\ last.lifo
    /\ last.snap.op = "push_context"
    /\ last.snap.ctx = c1
    /\ last.snap.preAsync = << c2 >>
    /\ async["t1"] = << c2 >>
    /\ global = last.snap.preGlobal

\* C3: get_context_value(k) is the value of the innermost async frame that
\* defines k, else of the innermost sync frame that defines k, else the
\* global store's value, and None only when no layer defines k.
C3_LookupPrecedence ==
    \A t \in Threads, k \in Keys :
        /\ get_context_value(t, k) = Resolved(async[t], sync[t], global, k)
        /\ get_context_value(t, k) = None <=>
              /\ Defining(async[t], k) = {}
              /\ Defining(sync[t], k) = {}
              /\ k \notin DOMAIN global

\* both stacks and the global store define x, the async stack differently
\* from the other two, and y is defined below the async stack only
C3_Witness ==
    /\ async["t1"] = << c1 >>
    /\ sync["t1"] = << c2 >>
    /\ global = c2
    /\ get_context_value("t1", "x") = "1"
    /\ get_context_value("t1", "y") = "2"

\* C4: the map the logging macros hand to log_with_context is the merge of
\* all three layers (async over sync over global, inner over outer).
C4_LogContextIsEffective ==
    \A t \in Threads : LogContext(t) = EffectiveContext(t)

\* C5: the merge of one stack maps each key to the value of the most recently
\* pushed live frame that defines it, and after the innermost guard's drop to
\* the value of the next outer frame that defines it.
C5_InnermostWins ==
    /\ \A t \in Threads :
          /\ DOMAIN get_context(t) = KeysOf(sync[t])
          /\ \A k \in KeysOf(sync[t]) : get_context(t)[k] = Innermost(sync[t], k)
          /\ DOMAIN get_async_context(t) = KeysOf(async[t])
          /\ \A k \in KeysOf(async[t]) : get_async_context(t)[k] = Innermost(async[t], k)
    /\ (last.op = "drop" /\ last.lifo /\ last.snap.op = "push_context") =>
          \A k \in KeysOf(last.snap.preSync) :
             /\ k \in DOMAIN get_context(last.snap.t)
             /\ get_context(last.snap.t)[k] = Innermost(last.snap.preSync, k)
    /\ (last.op = "drop" /\ last.lifo /\ last.snap.op = "push_async_context") =>
          \A k \in KeysOf(last.snap.preAsync) :
             /\ k \in DOMAIN get_async_context(last.snap.t)
             /\ get_async_context(last.snap.t)[k] = Innermost(last.snap.preAsync, k)

\* the inner of two nested sync frames that define x differently was dropped
C5_Witness ==
    /\ last.op = "drop" /\ last.lifo
    /\ last.snap.postSync = << c1, c2 >>
    /\ sync["t1"] = << c1 >>

\* the frames of stack s, in order, that unit u pushed (o: the owners of s)
RECURSIVE OwnFrames(_, _, _)
OwnFrames(s, o, u) ==
    IF Len(s) = 0 THEN << >>
    ELSE LET r == OwnFrames(Front(s), Front(o), u) IN
         IF o[Len(s)] = u THEN Append(r, s[Len(s)]) ELSE r

\* the async frames of its own that unit u sees on the thread it runs on
OwnAsync(u) == OwnFrames(async[thr[u]], asyncOwner[thr[u]], u)

\* C6: the async frames a task pushed survive its resumption on another
\* thread: after the resumption the async stack the task sees holds the same
\* frames of its own as before, resolving the same keys.
C6_AsyncSurvivesResume ==
    [][ \A u \in Units :
          (status[u] = "run" /\ thr'[u] # thr[u]) =>
              /\ OwnAsync(u)' = OwnAsync(u)
              /\ \A k \in KeysOf(OwnAsync(u)) : ScanRev(async'[thr'[u]], k) # None ]_vars

\* C7: a frame pushed by one task with push_async_context is never on the
\* async stack another task reads, and a task dropping its AsyncContextGuard
\* never removes a frame another task pushed.
C7_TasksIndependent ==
    [][ \A u \in Units :
          /\ Ready(u) => \A i \in DOMAIN asyncOwner[thr[u]] : asyncOwner[thr[u]][i] = u
          /\ (guards'[u] = Front(guards[u]) /\ guards[u] # << >>
                 /\ guards[u][Len(guards[u])] = "async") =>
                TopOwner(asyncOwner[thr[u]]) \in {u, "none"} ]_vars

\* C8: a newly started unit of work begins with an empty sync stack and an
\* empty async stack, wherever it is scheduled.
C8_NewUnitStartsEmpty ==
    [][ \A u \in Units :
          (status[u] = "new" /\ status'[u] = "run") =>
              /\ sync'[thr'[u]] = << >>
              /\ async'[thr'[u]] = << >> ]_vars

\* C9: an operation of a unit of work (a push_context or a guard drop among
\* them) leaves the result of get_context on every thread other than the
\* unit's own unchanged.
C9_SyncStackPrivate ==
    [][ \A u \in Units :
          guards'[u] # guards[u] =>
              \A t \in Threads \ {thr[u]} : get_context(t)' = get_context(t) ]_vars

\* two units on different threads have each pushed a sync frame and read
\* different contexts
C9_Witness ==
    /\ status["A"] = "run" /\ status["B"] = "run"
    /\ thr["A"] # thr["B"]
    /\ syncOwner[thr["A"]] = << "A" >>
    /\ syncOwner[thr["B"]] = << "B" >>
    /\ get_context(thr["A"]) # get_context(thr["B"])

\* C10: when capture_context returns, the global store maps every key of the
\* union (async merge overlaid with sync merge, sync wins) to the union's
\* value, and every other key as before the call.
C10_CapturePublishesUnion ==
    last.op = "capture_context" =>
        LET h  == hist[Main][Len(hist[Main])]
            ks == KeysOf(h.preSync)
            ka == KeysOf(h.preAsync)
            U  == [ k \in ks \cup ka |->
                      IF k \in ks THEN Innermost(h.preSync, k)
                      ELSE Innermost(h.preAsync, k) ]
        IN
        /\ last.ctx = U
        /\ \A k \in DOMAIN U : k \in DOMAIN global /\ global[k] = U[k]
        /\ \A k \in Keys \ DOMAIN U :
              /\ k \in DOMAIN global <=> k \in DOMAIN h.preGlobal
              /\ k \in DOMAIN global => global[k] = h.preGlobal[k]

\* capture_context returned where both stacks defined x differently, y was
\* defined on the async stack only and the global store held another x
C10_Witness ==
    /\ last.op = "capture_context"
    /\ hist[Main][Len(hist[Main])].preSync = << c1 >>
    /\ hist[Main][Len(hist[Main])].preAsync = << c2 >>
    /\ hist[Main][Len(hist[Main])].preGlobal = c2
    /\ global = [k \in {"x", "y"} |-> IF k = "x" THEN "1" ELSE "2"]

\* C11 as stated: when capture_context has returned, the union frame is the
\* top frame of the sync stack and of the async stack, and each stack is one
\* frame deeper than before the call.
C11_CaptureLeavesUnionOnTop ==
    last.op = "capture_context" =>
        LET h == hist[Main][Len(hist[Main])] IN
        /\ sync[h.t] = Append(h.preSync, last.ctx)
        /\ async[h.t] = Append(h.preAsync, last.ctx)

\* C12 as stated: auto_capture_context pushes the merge of both stacks on
\* both stacks, so that when it has returned every key of the async stack is
\* in get_context and every key of the sync stack is in get_async_context.
C12_AutoCaptureBridgesStacks ==
    last.op = "auto_capture_context" =>
        LET h == hist[Main][Len(hist[Main])] IN
        /\ last.ctx = Extend(FoldFrames(h.preAsync), FoldFrames(h.preSync))
        /\ KeysOf(h.preAsync) \subseteq DOMAIN get_context(h.t)
        /\ KeysOf(h.preSync) \subseteq DOMAIN get_async_context(h.t)

\* the keys the three given layers resolve
ResolvedKeys(as, ss, g) == { k \in Keys : Resolved(as, ss, g, k) # None }

\* thread t holds no frame on either stack
FreshThread(t) == sync[t] = << >> /\ async[t] = << >>

\* C13: when capture_context has returned, a thread with empty stacks other
\* than the capturing one finds, through the global store alone
\* (get_global_context, the fallback of get_context_value), every key the
\* capturing unit's layers resolved when capture_context was called.
C13_FreshUnitSeesCapturedKeys ==
    last.op = "capture_context" =>
        LET h  == hist[Main][Len(hist[Main])]
            ek == ResolvedKeys(h.preAsync, h.preSync, h.preGlobal)
        IN
        \A t \in Threads \ {h.t} :
            (FreshThread(t) /\ ek # {}) =>
                /\ get_global_context # NoMap
                /\ ek \subseteq DOMAIN get_global_context[1]
                /\ \A k \in ek : get_context_value(t, k) # None

\* capture_context returned where only the async stack defined x and y and
\* the global store was empty; the other thread, with empty stacks, reads y
C13_Witness ==
    /\ last.op = "capture_context"
    /\ hist[Main][Len(hist[Main])].preSync = << >>
    /\ hist[Main][Len(hist[Main])].preAsync = << c2 >>
    /\ hist[Main][Len(hist[Main])].preGlobal = EmptyCtx
    /\ FreshThread("t2")
    /\ get_context_value("t2", "y") = "2"

\* C14: an entry k -> v of the global store stays as it is over every step
\* other than a publication of k by capture_context; a guard drop on either
\* stack, the drop of the last guard included, leaves the whole store and
\* what get_global_context returns untouched.
C14_GlobalOutlivesGuards ==
    [][ /\ \A k \in DOMAIN global :
              (k \notin DOMAIN global' \/ global'[k] # global[k]) =>
                  (last'.op = "capture_publish" /\ k \in DOMAIN last'.ctx)
        /\ last'.op = "drop" =>
              (global' = global /\ get_global_context' = get_global_context) ]_vars

\* every guard has been dropped, both stacks are empty, and the store still
\* holds what capture_context published
C14_Witness ==
    /\ last.op = "drop"
    /\ guards[Main] = << >>
    /\ sync["t1"] = << >> /\ async["t1"] = << >>
    /\ global = c2
    /\ get_context_value("t1", "y") = "2"

\* C15: a key that is in the global store stays in it: no step of any
\* operation removes a key.
C15_GlobalKeysNeverShrink ==
    [][ DOMAIN global \subseteq DOMAIN global' ]_vars

\* a publication of x overwrote x's value in a store that held x and y
C15_Witness ==
    /\ last.op = "capture_publish"
    /\ last.ctx = c1
    /\ global = [k \in {"x", "y"} |-> IF k = "x" THEN "1" ELSE "2"]

\* C16: get_global_context returns None exactly when the store holds no
\* entry, and otherwise Some(m) with m equal to the store's contents.
C16_SnapshotIsFullCopy ==
    /\ get_global_context = NoMap <=> DOMAIN global = {}
    /\ get_global_context # NoMap => get_global_context = SomeMap(global)

\* the store holds two entries and the snapshot is Some of both
C16_Witness ==
    /\ global = c2
    /\ get_global_context = SomeMap(c2)
    /\ last.op = "capture_context"

\* C17: while the lock of the global store is poisoned, set_global_context
\* leaves the map as it is and does not fail its caller, get_global_context
\* returns None, and get_context_value and get_inherited_context_string
\* return what they return for an empty store.
C17_PoisonedLockIsSilent ==
    [][ poisoned =>
          /\ last'.op = "capture_publish" => (global' = global /\ status' = status)
          /\ get_global_context = NoMap
          /\ \A t \in Threads :
                /\ \A k \in Keys :
                      get_context_value(t, k) = LookupIn(TryAsync(t), sync[t], EmptyCtx, k)
                /\ get_inherited_context_string(t) =
                      InheritedStrings(TryAsync(t), sync[t], NoMap) ]_vars

\* the lock was poisoned over a store holding x and y; a later capture_context
\* published x -> 1 and the store still holds x -> 2, which no reader sees
C17_Witness ==
    /\ poisoned
    /\ last.op = "capture_publish"
    /\ last.ctx = c1
    /\ global = c2
    /\ \E t \in Threads : FreshThread(t) /\ get_context_value(t, "x") = None

\* unit u drops its innermost guard in this step
Drops(u) == guards[u] # << >> /\ guards'[u] = Front(guards[u])

\* the stack, on the thread of unit u, that the innermost guard of u pops
GuardStack(u) ==
    IF guards[u][Len(guards[u])] = "sync" THEN sync[thr[u]] ELSE async[thr[u]]

\* C18: the drop of a ContextGuard or AsyncContextGuard whose stack is empty
\* does not fail the unit and changes nothing: both stacks of every thread,
\* the global store and every lookup stay as they were.
C18_EmptyPopIsNoOp ==
    [][ \A u \in Units :
          (Drops(u) /\ GuardStack(u) = << >>) =>
              /\ status'[u] = "run"
              /\ sync' = sync /\ async' = async /\ global' = global
              /\ \A k \in Keys :
                    get_context_value(thr[u], k)' = get_context_value(thr[u], k) ]_vars

\* task A pushed an async frame on one thread, was resumed on the other and
\* dropped its guard there, where the async stack was empty; nothing else ran
C18_Witness ==
    /\ status["A"] = "run" /\ status["B"] = "new"
    /\ guards["A"] = << >>
    /\ FreshThread(thr["A"])
    /\ \E t \in Threads \ {thr["A"]} : asyncOwner[t] = << "A" >>

\* C19 as stated: where the async stack's thread-local is inaccessible, every
\* operation that touches it reads it as an empty stack, and no operation of
\* a unit on that thread (push_async_context, an AsyncContextGuard's drop,
\* capture_context, auto_capture_context among them) fails the unit.
C19_AsyncStorageFailureIsSilent ==
    [][ \A u \in Units :
          (status[u] = "run" /\ asyncGone[thr[u]] /\ last'.op # "publish_fails") =>
              /\ status'[u] = "run"
              /\ get_async_context(thr[u]) = EmptyCtx
              /\ FoldFrames(get_current_async_stack(thr[u])) = EmptyCtx
              /\ \A k \in Keys :
                    get_context_value(thr[u], k) = LookupIn(<< >>, sync[thr[u]], LockedGlobal, k)
              /\ get_inherited_context_string(thr[u]) =
                    InheritedStrings(<< >>, sync[thr[u]], get_global_context) ]_vars

\* C20: a read (get_context, get_async_context, get_context_value,
\* get_inherited_fields_map) changes no stack and no entry of the global
\* store, and the same read made twice in a row returns the same result.
C20_ReadsAreIdempotent ==
    [][ last'.op = "read" =>
          /\ sync' = sync /\ async' = async /\ global' = global
          /\ last'.again => last'.res = last.res ]_vars

\* get_context_value("y") was called twice in a row where only the global
\* store defines y, under a sync frame that defines x
C20_Witness ==
    /\ last.op = "read" /\ last.again
    /\ last.rd = << "get_context_value", "y" >>
    /\ last.res = [k \in {"y"} |-> "2"]
    /\ sync["t1"] = << c1 >>
    /\ global = c2

\* reading key k from map m: the value, or None
ValueIn(m, k) == IF k \in DOMAIN m THEN m[k] ELSE None

\* C21: on every stack, the scan from the innermost frame outwards that
\* get_context_value makes returns for every key what the fold of all frames
\* (get_context, get_async_context) holds for it, a miss where the fold has
\* no entry.
C21_ScanAgreesWithFold ==
    \A t \in Threads, k \in Keys :
        /\ ScanRev(sync[t], k) = ValueIn(get_context(t), k)
        /\ ScanRev(async[t], k) = ValueIn(get_async_context(t), k)

\* two nested async frames define x differently and the outer one alone
\* defines y
C21_Witness ==
    /\ async["t1"] = << c2, c1 >>
    /\ ScanRev(async["t1"], "x") = "1"
    /\ ScanRev(async["t1"], "y") = "2"

\* the keys for which a set_global_context has completed
SetKeys == { k \in Keys : ghist.sets[k] # None }

\* C22: under every interleaving of the two units' set_global_context calls
\* and reads, the store holds for each key the value of the most recently
\* completed set of that key and no entry for a key never set, and that is
\* what the global fallback of get_context_value and every snapshot returns.
C22_GlobalOpsAtomic ==
    /\ \A k \in Keys :
          /\ ValueIn(LockedGlobal, k) = ghist.sets[k]
          /\ LookupIn(<< >>, << >>, LockedGlobal, k) = ghist.sets[k]
    /\ last.op = "read" =>
          last.res = IF SetKeys = {} THEN NoMap
                     ELSE SomeMap([k \in SetKeys |-> ghist.sets[k]])

\* a unit read the store while the other unit was between two of its sets,
\* over entries the reader had set before
C22_Witness ==
    /\ last.op = "read"
    /\ last.res = SomeMap([k \in Keys |-> IF k = "x" THEN "1" ELSE "2"])
    /\ \E u \in Units : cap[u].pc = "publish" /\ cap[u].todo = {"y"}

\* C23: capture_context publishes key by key: each of its publication steps
\* changes the entry of one key of the captured context and leaves every
\* other entry of the store as it is, so that the store passes through
\* states holding a part of the capture; a reader can obtain such a state
\* and two overlapping captures can end with entries of both.
C23_CaptureIsNotAtomic ==
    [][ \A u \in Units :
          (cap[u].pc = "publish" /\ cap'[u].todo # cap[u].todo) =>
              \E k \in cap[u].todo :
                  /\ cap'[u].todo = cap[u].todo \ {k}
                  /\ ValueIn(global', k) = cap[u].ctx[k]
                  /\ \A x \in Keys \ {k} : ValueIn(global', x) = ValueIn(global, x) ]_vars

\* a reader obtained a snapshot holding x of a capture in progress and not
\* its y, and the two captures that overlapped have both returned, leaving
\* x of one and y of the other
C23_Witness ==
    /\ ghist.seen = SomeMap([k \in {"x"} |-> "1"])
    /\ \A u \in Units : cap[u].pc = "idle"
    /\ last.op = "capture_context"
    /\ global = [k \in Keys |-> IF k = "x" THEN "2" ELSE "1"]

\* the keys of the parts of one output of get_inherited_context_string
PartKeys(parts) == { parts[i][1] : i \in DOMAIN parts }

\* C24 as stated: every output of get_inherited_context_string lists each key
\* of the effective context (async over sync over global) other than the
\* function name exactly once, with its effective value, and no other key.
C24_StringRendersEffectiveContext ==
    \A t \in Threads :
        \A parts \in get_inherited_context_string(t) :
            /\ PartKeys(parts) = (DOMAIN EffectiveContext(t)) \ {"function"}
            /\ \A i, j \in DOMAIN parts : parts[i][1] = parts[j][1] => i = j
            /\ \A i \in DOMAIN parts : parts[i][2] = EffectiveContext(t)[parts[i][1]]

\* C25 as stated: the output of get_inherited_context_string is determined by
\* the effective context: one engine state yields one string, and threads
\* with the same effective context yield the same string.
C25_StringIsDeterministic ==
    \A t \in Threads :
        /\ Cardinality(get_inherited_context_string(t)) = 1
        /\ \A t2 \in Threads :
              EffectiveContext(t) = EffectiveContext(t2) =>
                  get_inherited_context_string(t) = get_inherited_context_string(t2)

\* C26 as stated: when a task leaves the scope of a push_async_context, the
\* drop of the scope's guard pops the frame that scope pushed: the top frame
\* of the async stack the drop works on is the task's own, and it is removed.
C26_OwnFramePoppedAtExit ==
    [][ \A u \in Units :
          (Drops(u) /\ guards[u][Len(guards[u])] = "async") =>
              /\ TopOwner(asyncOwner[thr[u]]) = u
              /\ async'[thr[u]] = Front(async[thr[u]])
              /\ Len(async'[thr[u]]) = Len(async[thr[u]]) - 1 ]_vars

\* stack s2 is stack s, or s with one frame appended, or s without its top frame
StackStep(s, s2) ==
    \/ s2 = s
    \/ Len(s2) = Len(s) + 1 /\ SubSeq(s2, 1, Len(s)) = s
    \/ Len(s) > 0 /\ s2 = Front(s)

\* C27: every step of every operation leaves each stack as it was, or with
\* one frame appended at the top, or without its top frame; the frames below
\* the top keep their contents.
C27_FramesImmutable ==
    [][ \A t \in Threads :
          StackStep(sync[t], sync'[t]) /\ StackStep(async[t], async'[t]) ]_vars

\* the inner of two nested async frames was dropped and the outer one is as
\* it was pushed
C27_Witness ==
    /\ last.op = "drop" /\ last.lifo
    /\ last.snap.op = "push_async_context"
    /\ last.snap.postAsync = << c1, c2 >>
    /\ async["t1"] = << c1 >>

\* the fields the span-annotated functions unit u is inside of pushed, the
\* innermost function's value for a key pushed twice
RECURSIVE PropagatedBy(_)
PropagatedBy(cs) ==
    IF Len(cs) = 0 THEN EmptyCtx
    ELSE LET e == cs[Len(cs)] IN
         IF e.fn.span
         THEN Extend(PropagatedBy(Front(cs)), get_context_map_for_span(e.fn, e.args))
         ELSE PropagatedBy(Front(cs))

\* C28 as stated: a task spawned from the body of a span-annotated function
\* inherits the parent's context: when the task starts, on whichever worker
\* thread, get_context_value resolves in it every field the parent's
\* functions propagate, with the parent's value.
C28_SpawnedTaskInheritsContext ==
    (last.op = "spawn" /\ Top(last.res.parent).fn.span) =>
        \A k \in DOMAIN PropagatedBy(calls[last.res.parent]) :
            get_context_value(thr[last.res.child], k)
                = PropagatedBy(calls[last.res.parent])[k]

\* C29 as stated: while the body of a function annotated
\* #[params(span(p1, p2))] runs, get_context_value of p1 and of p2 returns the
\* value of the parameter, not the absence that turns into the "" default.
C29_SpanKeysPropagate ==
    (Len(calls[Main]) > 0 /\ Top(Main).pc = "body") =>
        \A k \in Top(Main).fn.span_fields :
            get_context_value(thr[Main], k) = Top(Main).args[k]

\* event e carries field k with value v: as a field of its own, inside the
\* context map, or inside the inherited string
Attached(e, k, v) ==
    \/ k \in DOMAIN e.fields /\ e.fields[k] = v
    \/ e.context # NoMap /\ k \in DOMAIN e.context[1] /\ e.context[1][k] = v
    \/ e.inherited # << >> /\ \E i \in DOMAIN e.inherited[1] : e.inherited[1][i] = << k, v >>

\* a function annotated with bare #[params]
Bare(f) == ~f.span /\ f.fields = {} /\ f.span_fields = {}

\* C30 as stated: every log event of a function annotated with bare #[params]
\* carries every field that its span-annotated caller pushed, the caller
\* being a sync fn (sync stack) or an async fn (async stack).
C30_BareChildInheritsContext ==
    (last.op = "log" /\ Len(calls[Main]) >= 2) =>
        LET child  == calls[Main][Len(calls[Main])]
            caller == calls[Main][Len(calls[Main]) - 1]
            pushed == get_context_map_for_span(caller.fn, caller.args)
        IN (Bare(child.fn) /\ caller.fn.span) =>
               \A k \in DOMAIN pushed : Attached(last.res.event, k, pushed[k])

\* C31 as stated, for the log events: an event logged in the body of a
\* function annotated without span carries no field that a span-annotated
\* function further up the call chain pushed (a field the function names in
\* its own fields(..) aside).
C31_NoSpanDoesNotInherit ==
    (last.op = "log" /\ Len(calls[Main]) >= 2 /\ ~Top(Main).fn.span) =>
        LET pushed == PropagatedBy(Front(calls[Main])) IN
        \A k \in (DOMAIN pushed) \ Top(Main).fn.fields :
            ~Attached(last.res.event, k, pushed[k])

\* C32 as stated: in the body of a function annotated #[params(fields(..))]
\* without a span attribute, get_context_value resolves each of those fields
\* to the value of the parameter, the function having pushed them on entry.
C32_SpanIsDefault ==
    (Len(calls[Main]) = 1 /\ Top(Main).pc = "body" /\ ~Top(Main).fn.span) =>
        \A k \in Top(Main).fn.fields :
            get_context_value(thr[Main], k) = Top(Main).args[k]

\* C33 as stated: with WITH_CONTEXT_ENABLED false a log event carries no
\* context field; with it true the event carries the context field exactly
\* when the current context is not empty.
C33_OneToggleGovernsAttachment ==
    last.op = "log" =>
        LET e == last.res.event IN
        IF features.runtime
        THEN (e.context # NoMap) <=> (LogContext(thr[Main]) # EmptyCtx)
        ELSE e.context = NoMap /\ e.inherited = << >>

\* C34 as stated: when a call of an annotated function returns, the sync and
\* the async stack of the caller's thread hold exactly the frames they held
\* when the function was called.
C34_CallLeavesCallerContext ==
    last.op = "return" =>
        /\ sync[last.snap.t] = last.snap.preSync
        /\ async[last.snap.t] = last.snap.preAsync

C38_FieldsMapIsMergeOfFrames ==
    \A t \in Threads :
        \A k \in (KeysOf(async[t]) \cup KeysOf(sync[t])) \ {"function"} :
            /\ k \in DOMAIN get_inherited_fields_map(t)
            /\ get_inherited_fields_map(t)[k] = Resolved(async[t], sync[t], EmptyCtx, k)

\* the keys some frame of s defines
FrameKeys(s) == UNION { DOMAIN s[i] : i \in DOMAIN s }

\* C39 as stated: get_inherited_context_string omits a key that a frame
\* defines only when it is "function": every other key of a frame is in every
\* output, whatever other keys were rendered before it.
C39_OnlySameKeySuppresses ==
    \A t \in Threads :
        \A parts \in get_inherited_context_string(t) :
            \A k \in (FrameKeys(async[t]) \cup FrameKeys(sync[t])) \ {"function"} :
                k \in PartKeys(parts)

====
